---------------------------- MODULE Spec2Model ----------------------------
(***************************************************************************)
(* Power-Platform-JavaScript-Compiler: the mapping store, the asset        *)
(* scanner, the mapping creation flow (new-webresource script) and the     *)
(* sync reconciler (sync-webresources script).                             *)
(*                                                                         *)
(* Strings are sequences of one-character strings, so that String.replace, *)
(* String.trim, RegExp matching, JSON.stringify and JSON.parse are         *)
(* computed character by character as the JavaScript runtime does.         *)
(***************************************************************************)
EXTENDS Integers, Sequences, FiniteSets, TLC

VARIABLES
    configFile,   \* ./webresource-mapping.json: [exists, text]
    dist,         \* ./dist: [exists, files], files in glob discovery order
    assets,       \* ./src/webresources: [exists, folders]
    tsDir,        \* ./typescript: [exists, entries]
    sync,         \* the reconciler process (syncWebResources)
    create,       \* the creation-flow process (createNewWebResource)
    hist,         \* outcome of every finished reconciler run, oldest first
    harness       \* call frame of a single library function under test

vars == <<configFile, dist, assets, tsDir, sync, create, hist, harness>>

---------------------------------------------------------------------------
(* Characters and JavaScript string primitives                             *)

QUOTE == "\""
BACKSLASH == "\\"
NL == "\n"
SP == " "

\* /\s/ restricted to the characters of the model
IsSpace(c) == c \in {SP, NL}

\* the line terminators the RegExp dot does not match
IsLineTerminator(c) == c = NL

MinOf(S) == CHOOSE x \in S : \A y \in S : x <= y

MaxOf(S) == CHOOSE x \in S : \A y \in S : x >= y

StartsWithAt(s, p, i) ==
    /\ i >= 1
    /\ i + Len(p) - 1 <= Len(s)
    /\ SubSeq(s, i, i + Len(p) - 1) = p

\* String.prototype.indexOf, 1-based; 0 when p does not occur
IndexOf(s, p) ==
    LET hits == {i \in 1..(Len(s) + 1) : StartsWithAt(s, p, i)}
    IN  IF hits = {} THEN 0 ELSE MinOf(hits)

\* String.prototype.replace with a string pattern: the first occurrence only
StrReplace(s, from, to) ==
    LET i == IndexOf(s, from)
    IN  IF i = 0 THEN s
        ELSE SubSeq(s, 1, i - 1) \o to \o SubSeq(s, i + Len(from), Len(s))

\* String.prototype.endsWith
EndsWith(s, suf) ==
    /\ Len(suf) <= Len(s)
    /\ SubSeq(s, Len(s) - Len(suf) + 1, Len(s)) = suf

\* String.prototype.trim
Trim(s) ==
    LET solid == {i \in 1..Len(s) : ~IsSpace(s[i])}
    IN  IF solid = {} THEN <<>> ELSE SubSeq(s, MinOf(solid), MaxOf(solid))

\* index of the first non-whitespace character at or after i (Len(s)+1 if none)
SkipWs(s, i) ==
    MinOf({j \in i..Len(s) : ~IsSpace(s[j])} \cup {Len(s) + 1})

---------------------------------------------------------------------------
(* JavaScript values held by the mapping variable: an ordinary object with *)
(* string members in property (insertion) order, or null.                  *)

JsObject(entries) == [t |-> "object", e |-> entries]

JsNull == [t |-> "null", e |-> <<>>]

EmptyObject == JsObject(<<>>)

Keys(entries) == {entries[i].k : i \in 1..Len(entries)}

HasKey(entries, key) == key \in Keys(entries)

\* mapping[key] for an own property
GetValue(entries, key) ==
    entries[CHOOSE i \in 1..Len(entries) : entries[i].k = key].v

\* mapping[key] = value: an existing property keeps its place
PutValue(entries, key, value) ==
    IF HasKey(entries, key)
    THEN [i \in 1..Len(entries) |->
            IF entries[i].k = key THEN [k |-> key, v |-> value] ELSE entries[i]]
    ELSE Append(entries, [k |-> key, v |-> value])

\* mutant of DeleteKey: every entry with the same value goes with it
DeleteKeyAndSameValued(entries, key) ==
    SelectSeq(entries, LAMBDA en : en.k # key /\ (HasKey(entries, key) => en.v # GetValue(entries, key)))

\* delete mapping[key]
DeleteKey(entries, key) ==
    SelectSeq(entries, LAMBDA en : en.k # key)

\* the table an object denotes: key -> value
TableOf(entries) == [key \in Keys(entries) |-> GetValue(entries, key)]

---------------------------------------------------------------------------
(* JSON.stringify(value, null, 2) and JSON.parse                           *)

\* mutant of JsonEscape: quotes and backslashes are written as they are
JsonEscapeNothing(s) == s

RECURSIVE JsonEscape(_)
JsonEscape(s) ==
    IF s = <<>> THEN <<>>
    ELSE LET c == Head(s)
         IN  (IF c = QUOTE THEN <<BACKSLASH, QUOTE>>
              ELSE IF c = BACKSLASH THEN <<BACKSLASH, BACKSLASH>>
              ELSE IF c = NL THEN <<BACKSLASH, "n">>
              ELSE <<c>>) \o JsonEscape(Tail(s))

JsonQuote(s) == <<QUOTE>> \o JsonEscape(s) \o <<QUOTE>>

RECURSIVE JsonMembers(_)
JsonMembers(entries) ==
    IF entries = <<>> THEN <<>>
    ELSE <<SP, SP>> \o JsonQuote(Head(entries).k) \o <<":", SP>>
         \o JsonQuote(Head(entries).v)
         \o (IF Len(entries) > 1 THEN <<",">> ELSE <<>>) \o <<NL>>
         \o JsonMembers(Tail(entries))

JsonStringify(value) ==
    IF value.t = "null" THEN <<"n", "u", "l", "l">>
    ELSE IF value.e = <<>> THEN <<"{", "}">>
    ELSE <<"{", NL>> \o JsonMembers(value.e) \o <<"}">>

ScanFail == [ok |-> FALSE, str |-> <<>>, next |-> 0]

\* a string literal's characters from j (just after the opening quote)
RECURSIVE ScanString(_, _, _)
ScanString(s, j, acc) ==
    IF j > Len(s) THEN ScanFail
    ELSE IF s[j] = QUOTE THEN [ok |-> TRUE, str |-> acc, next |-> j + 1]
    ELSE IF s[j] = BACKSLASH
         THEN IF j + 1 > Len(s) THEN ScanFail
              ELSE IF s[j + 1] \in {QUOTE, BACKSLASH, "/"}
                   THEN ScanString(s, j + 2, Append(acc, s[j + 1]))
              ELSE IF s[j + 1] = "n" THEN ScanString(s, j + 2, Append(acc, NL))
              ELSE ScanFail
    ELSE IF s[j] = NL THEN ScanFail
    ELSE ScanString(s, j + 1, Append(acc, s[j]))

MembersFail == [ok |-> FALSE, entries |-> <<>>, next |-> 0]

\* the members of an object from i, the first character of a member name
RECURSIVE ScanMembers(_, _, _)
ScanMembers(s, i, acc) ==
    IF i > Len(s) \/ s[i] # QUOTE THEN MembersFail
    ELSE
      LET name  == ScanString(s, i + 1, <<>>)
          colon == SkipWs(s, name.next)
      IN  IF ~name.ok \/ colon > Len(s) \/ s[colon] # ":" THEN MembersFail
          ELSE
            LET vstart == SkipWs(s, colon + 1)
            IN  IF vstart > Len(s) \/ s[vstart] # QUOTE THEN MembersFail
                ELSE
                  LET val  == ScanString(s, vstart + 1, <<>>)
                      sep  == SkipWs(s, val.next)
                      acc2 == PutValue(acc, name.str, val.str)
                  IN  IF ~val.ok \/ sep > Len(s) THEN MembersFail
                      ELSE IF s[sep] = ","
                           THEN ScanMembers(s, SkipWs(s, sep + 1), acc2)
                      ELSE IF s[sep] = "}"
                           THEN [ok |-> TRUE, entries |-> acc2, next |-> sep + 1]
                      ELSE MembersFail

ParseError == [ok |-> FALSE, val |-> JsNull]

\* JSON.parse on the texts of the model: an object whose members are
\* strings, or the literal null; ok = FALSE stands for the SyntaxError thrown
JsonParse(s) ==
    LET i == SkipWs(s, 1)
        Finish(v, n) == IF SkipWs(s, n) > Len(s) THEN [ok |-> TRUE, val |-> v]
                        ELSE ParseError
    IN  IF i > Len(s) THEN ParseError
        ELSE IF s[i] = "{"
             THEN LET j == SkipWs(s, i + 1)
                  IN  IF j <= Len(s) /\ s[j] = "}" THEN Finish(EmptyObject, j + 1)
                      ELSE LET m == ScanMembers(s, j, <<>>)
                           IN  IF m.ok THEN Finish(JsObject(m.entries), m.next)
                               ELSE ParseError
        ELSE IF StartsWithAt(s, <<"n", "u", "l", "l">>, i) THEN Finish(JsNull, i + 4)
        ELSE ParseError

---------------------------------------------------------------------------
(* Mapping store                                                           *)

AbsentFile == [exists |-> FALSE, text |-> <<>>]

FileWith(text) == [exists |-> TRUE, text |-> text]

\* mutant of loadMapping: an entry is salvaged from a file that does not parse
loadMappingSalvaging(file) ==
    IF ~file.exists THEN EmptyObject
    ELSE LET r == JsonParse(file.text)
         IN  IF r.ok THEN r.val ELSE JsObject(<<[k |-> <<"z">>, v |-> <<"f">>]>>)

\* loadMapping: the value it returns
loadMapping(file) ==
    IF ~file.exists THEN EmptyObject
    ELSE LET r == JsonParse(file.text)
         IN  IF r.ok THEN r.val ELSE EmptyObject

\* loadMapping: whether it reports 'Error reading mapping file'
loadMappingReportsError(file) ==
    file.exists /\ ~JsonParse(file.text).ok

\* saveMapping: the file it leaves
saveMapping(mapping) == FileWith(JsonStringify(mapping))

---------------------------------------------------------------------------
(* Paths and the file system                                               *)

JS_EXT == <<".", "j", "s">>

TS_EXT == <<".", "t", "s">>

SEP == <<"/">>

\* path.join('./src/webresources', ...) and path.join('./dist', ...) normalise
\* the leading './' away
WEBRESOURCES_DIR == <<"s", "r", "c", "/", "w", "e", "b", "r", "e", "s", "o", "u", "r", "c", "e", "s">>

DIST_DIR == <<"d", "i", "s", "t">>

DESCRIPTOR_NAME == <<"w", "e", "b", "r", "e", "s", "o", "u", "r", "c", "e", ".", "y", "m", "l">>

\* path.join(dir, name) for a name of one or more plain segments
PathJoin(dir, name) == dir \o SEP \o name

\* path.relative(root, p) for a path p below root
PathRelative(root, p) ==
    IF StartsWithAt(p, root \o SEP, 1) THEN SubSeq(p, Len(root) + 2, Len(p)) ELSE p

\* mutant of PathBasename: what follows the first separator
PathBasenameAfterFirstSeparator(p) ==
    LET seps == {i \in 1..Len(p) : p[i] = "/"}
    IN  IF seps = {} THEN p ELSE SubSeq(p, MinOf(seps) + 1, Len(p))

\* path.basename(p): what follows the last separator
PathBasename(p) ==
    LET seps == {i \in 1..Len(p) : p[i] = "/"}
    IN  IF seps = {} THEN p ELSE SubSeq(p, MaxOf(seps) + 1, Len(p))

\* a directory entry of an asset folder
FileEntry(name, bytes, writable) == [name |-> name, bytes |-> bytes, writable |-> writable]

AbsentFolder == [kind |-> "absent", entries |-> <<>>]

\* a regular file where a folder is expected
PlainFileFolder == [kind |-> "file", entries |-> <<>>]

DirFolder(entries) == [kind |-> "dir", entries |-> entries]

\* the node at a path directly below the assets root
FolderAt(fs, targetDir) ==
    LET name == PathRelative(WEBRESOURCES_DIR, targetDir)
    IN  IF fs.exists /\ name \in DOMAIN fs.folders THEN fs.folders[name] ELSE AbsentFolder

\* fs.existsSync(targetDir)
existsSync(fs, targetDir) == FolderAt(fs, targetDir).kind # "absent"

\* fs.readdirSync(targetDir) throws (ENOTDIR) on a path that is no directory
readdirThrows(fs, targetDir) == FolderAt(fs, targetDir).kind # "dir"

\* fs.readdirSync(targetDir): the names, in directory order
readdirSync(fs, targetDir) ==
    LET es == FolderAt(fs, targetDir).entries
    IN  [i \in 1..Len(es) |-> es[i].name]

\* fs.readdirSync(targetDir).filter(f => f.endsWith('.js'))
JsFilesIn(fs, targetDir) ==
    SelectSeq(readdirSync(fs, targetDir), LAMBDA f : EndsWith(f, JS_EXT))

EntryIndex(fs, targetDir, name) ==
    CHOOSE i \in 1..Len(FolderAt(fs, targetDir).entries) :
        FolderAt(fs, targetDir).entries[i].name = name

\* fs.copyFileSync(source, targetFile) throws when the target cannot be written
copyFileThrows(fs, targetDir, name) ==
    ~FolderAt(fs, targetDir).entries[EntryIndex(fs, targetDir, name)].writable

\* mutant of copyFileSync: the copy lands on the last directory entry
copyFileSyncOntoLastEntry(fs, bytes, targetDir, name) ==
    LET folder == PathRelative(WEBRESOURCES_DIR, targetDir)
        idx    == Len(FolderAt(fs, targetDir).entries)
    IN  [fs EXCEPT !.folders[folder].entries[idx].bytes = bytes]

\* mutant of copyFileSync: the bytes go into a new file beside the target
copyFileSyncCreatingFile(fs, bytes, targetDir, name) ==
    LET folder == PathRelative(WEBRESOURCES_DIR, targetDir)
    IN  [fs EXCEPT !.folders[folder].entries = Append(@, FileEntry(name, bytes, TRUE))]

\* fs.copyFileSync(source, targetFile): the target gets the source's bytes
copyFileSync(fs, bytes, targetDir, name) ==
    LET folder == PathRelative(WEBRESOURCES_DIR, targetDir)
        idx    == EntryIndex(fs, targetDir, name)
    IN  [fs EXCEPT !.folders[folder].entries[idx].bytes = bytes]

\* mutant of getCompiledFiles: every file below ./dist is taken
getCompiledFilesOfAnyName(d) ==
    IF ~d.exists THEN <<>>
    ELSE [i \in 1..Len(d.files) |-> [path |-> PathJoin(DIST_DIR, d.files[i].rel), bytes |-> d.files[i].bytes]]

\* getCompiledFiles: glob.sync('./dist/**/*.js')
getCompiledFiles(d) ==
    IF ~d.exists THEN <<>>
    ELSE LET js == SelectSeq(d.files, LAMBDA f : EndsWith(f.rel, JS_EXT))
         IN  [i \in 1..Len(js) |-> [path |-> PathJoin(DIST_DIR, js[i].rel), bytes |-> js[i].bytes]]

\* getWebResourceDirs: the immediate subdirectories of the assets root
getWebResourceDirs(fs) ==
    IF ~fs.exists THEN {}
    ELSE {name \in DOMAIN fs.folders : fs.folders[name].kind = "dir"}

---------------------------------------------------------------------------
(* Asset directory scanner                                                 *)

NAME_KEY == <<"N", "a", "m", "e", ":">>

DISPLAY_NAME_KEY == <<"D", "i", "s", "p", "l", "a", "y">> \o NAME_KEY

FILE_NAME_KEY == <<"F", "i", "l", "e">> \o NAME_KEY

NoMatch == [found |-> FALSE, str |-> <<>>]

\* last index of the line that holds index j
EndOfLine(s, j) ==
    MinOf({e \in j..Len(s) : IsLineTerminator(s[e])} \cup {Len(s) + 1}) - 1

\* /<key>\s*(.+)/ tried with the key at index i: the capture group.  \s* is
\* greedy and runs over line breaks; when it runs to the end of the text it
\* gives characters back until (.+) finds one that is no line terminator.
CaptureAt(s, key, i) ==
    LET p == i + Len(key)
        q == SkipWs(s, p)
        back == {j \in p..Len(s) : ~IsLineTerminator(s[j])}
    IN  IF ~StartsWithAt(s, key, i) THEN NoMatch
        ELSE IF q <= Len(s) THEN [found |-> TRUE, str |-> SubSeq(s, q, EndOfLine(s, q))]
        ELSE IF back = {} THEN NoMatch
        ELSE [found |-> TRUE, str |-> SubSeq(s, MaxOf(back), EndOfLine(s, MaxOf(back)))]

\* content.match(/<key>\s*(.+)/): the leftmost match anywhere in the text
RegExpMatch(s, key) ==
    LET hits == {i \in 1..Len(s) : CaptureAt(s, key, i).found}
    IN  IF hits = {} THEN NoMatch ELSE CaptureAt(s, key, MinOf(hits))

NullField == [null |-> TRUE, str |-> <<>>]

StringField(str) == [null |-> FALSE, str |-> str]

\* m ? m[1].trim() : null
FieldOf(m) == IF m.found THEN StringField(Trim(m.str)) ELSE NullField

NullInfo == [null |-> TRUE, dir |-> <<>>, name |-> NullField,
             displayName |-> NullField, fileName |-> NullField]

\* getWebResourceInfo(webResourceDir)
getWebResourceInfo(fs, webResourceDir) ==
    LET folderPath == PathJoin(WEBRESOURCES_DIR, webResourceDir)
        names      == readdirSync(fs, folderPath)
        hasYml     == \E i \in 1..Len(names) : names[i] = DESCRIPTOR_NAME
    IN  IF ~hasYml THEN NullInfo
        ELSE LET content == FolderAt(fs, folderPath).entries[
                                EntryIndex(fs, folderPath, DESCRIPTOR_NAME)].bytes
             IN  [null        |-> FALSE,
                  dir         |-> webResourceDir,
                  name        |-> FieldOf(RegExpMatch(content, NAME_KEY)),
                  displayName |-> FieldOf(RegExpMatch(content, DISPLAY_NAME_KEY)),
                  fileName    |-> FieldOf(RegExpMatch(content, FILE_NAME_KEY))]

---------------------------------------------------------------------------
(* Sync reconciler                                                         *)

Event(ev, key, dir) == [ev |-> ev, key |-> key, dir |-> dir]

\* the key the reconciler looks an artifact up by
DerivedKey(compiledFile) ==
    StrReplace(PathRelative(DIST_DIR, compiledFile), JS_EXT, TS_EXT)

\* mutant of SyncedMappingValue: the whole target path is stored
SyncedMappingValueFullPath(targetDir) == targetDir

\* what syncFile stores back in the mapping after a copy
SyncedMappingValue(targetDir) == PathBasename(targetDir)

\* mutant of ChosenTarget: the last .js file of the folder is taken
ChosenTargetLast(webResourceFiles) == webResourceFiles[Len(webResourceFiles)]

\* webResourceFiles[0]: the first .js file in directory order
ChosenTarget(webResourceFiles) == webResourceFiles[1]

\* syncFile(sourceFile, targetDir, mapping): threw = readdirSync raised (not
\* caught); ok = its boolean result; the mapping, file system and console after
syncFile(compiled, targetDir, mapping, fs, log) ==
    LET tsFileName == DerivedKey(compiled.path)
        jsFiles    == JsFilesIn(fs, targetDir)
        quiet      == [threw |-> FALSE, ok |-> FALSE, mapping |-> mapping, fs |-> fs, log |-> log]
    IN  IF readdirThrows(fs, targetDir)
        THEN [quiet EXCEPT !.threw = TRUE]
        ELSE IF Len(jsFiles) = 0
        THEN [quiet EXCEPT !.log = Append(log, Event("no-js-files", tsFileName, targetDir))]
        ELSE IF copyFileThrows(fs, targetDir, ChosenTarget(jsFiles))
        THEN [quiet EXCEPT !.log = Append(log, Event("failed", tsFileName, targetDir))]
        ELSE [threw   |-> FALSE,
              ok      |-> TRUE,
              mapping |-> PutValue(mapping, tsFileName, SyncedMappingValue(targetDir)),
              fs      |-> copyFileSync(fs, compiled.bytes, targetDir, ChosenTarget(jsFiles)),
              log     |-> Append(log, Event("synced", tsFileName, targetDir))]

\* if (mapping[tsFileName]): an own property with a non-empty string
IsMapped(entries, key) == HasKey(entries, key) /\ GetValue(entries, key) # <<>>

\* mutant of PruneEntry: the stale entry is warned about but not deleted
PruneEntryKeepsEntry(entries, key) == entries

\* the stale-entry branch: delete mapping[tsFileName]
PruneEntry(entries, key) == DeleteKey(entries, key)

MaxRuns == 2

IdleSync ==
    [pc |-> "idle", mapping |-> EmptyObject, loaded |-> EmptyObject,
     compiledFiles |-> <<>>, i |-> 0, syncCount |-> 0, log |-> <<>>,
     before |-> AbsentFile, assetsBefore |-> [exists |-> FALSE, folders |-> <<>>]]

RunRecord(outcome, s, file, fs) ==
    [outcome |-> outcome, config |-> file, count |-> s.syncCount, log |-> s.log,
     loaded |-> s.loaded, compiledFiles |-> s.compiledFiles,
     before |-> s.before, assetsBefore |-> s.assetsBefore, assets |-> fs]

\* syncWebResources up to the loop: load, discover, early return
SyncStart ==
    /\ sync.pc \in {"idle", "done", "returned", "crashed"}
    /\ Len(hist) < MaxRuns
    /\ LET mapping  == loadMapping(configFile)
           compiled == getCompiledFiles(dist)
           log0     == IF ~configFile.exists THEN <<Event("no-config", <<>>, <<>>)>>
                       ELSE IF loadMappingReportsError(configFile)
                       THEN <<Event("load-error", <<>>, <<>>)>>
                       ELSE <<>>
           log1     == IF ~dist.exists THEN Append(log0, Event("no-dist", <<>>, <<>>)) ELSE log0
           log2     == IF ~assets.exists THEN Append(log1, Event("no-assets-root", <<>>, <<>>)) ELSE log1
           started  == [pc |-> "loop", mapping |-> mapping, loaded |-> mapping,
                        compiledFiles |-> compiled, i |-> 1, syncCount |-> 0, log |-> log2,
                        before |-> configFile, assetsBefore |-> assets]
       IN  IF Len(compiled) = 0
           THEN LET s == [started EXCEPT !.pc = "returned",
                                         !.log = Append(log2, Event("no-compiled-files", <<>>, <<>>))]
                IN  /\ sync' = s
                    /\ hist' = Append(hist, RunRecord("returned", s, configFile, assets))
           ELSE /\ sync' = started
                /\ hist' = hist
    /\ UNCHANGED <<configFile, dist, assets, tsDir, create, harness>>

\* mutant of SkipUnmapped: the skipped artifact is counted as synced
SkipUnmappedCountsIt(s, tsFileName) ==
    [s EXCEPT !.log = Append(@, Event("no-mapping", tsFileName, <<>>)),
              !.syncCount = @ + 1,
              !.i = @ + 1]

\* the else branch of if (mapping[tsFileName]): the warning, nothing else
SkipUnmapped(s, tsFileName) ==
    [s EXCEPT !.log = Append(@, Event("no-mapping", tsFileName, <<>>)),
              !.i = @ + 1]

\* one iteration of the for-loop over compiledFiles
SyncStep ==
    /\ sync.pc = "loop"
    /\ sync.i <= Len(sync.compiledFiles)
    /\ LET compiled   == sync.compiledFiles[sync.i]
           tsFileName == DerivedKey(compiled.path)
           crashed    == [sync EXCEPT !.pc = "crashed"]
       IN  IF sync.mapping.t = "null"
           THEN \* mapping[tsFileName] on null: TypeError, not caught
                /\ sync' = crashed
                /\ hist' = Append(hist, RunRecord("crashed", crashed, configFile, assets))
                /\ assets' = assets
           ELSE IF IsMapped(sync.mapping.e, tsFileName)
           THEN LET webResourceDir == GetValue(sync.mapping.e, tsFileName)
                    targetDir      == PathJoin(WEBRESOURCES_DIR, webResourceDir)
                IN  IF existsSync(assets, targetDir)
                    THEN LET r == syncFile(compiled, targetDir, sync.mapping.e, assets, sync.log)
                         IN  IF r.threw
                             THEN /\ sync' = crashed
                                  /\ hist' = Append(hist, RunRecord("crashed", crashed, configFile, assets))
                                  /\ assets' = assets
                             ELSE /\ sync' = [sync EXCEPT !.mapping = JsObject(r.mapping),
                                                          !.log = r.log,
                                                          !.syncCount = IF r.ok THEN @ + 1 ELSE @,
                                                          !.i = @ + 1]
                                  /\ assets' = r.fs
                                  /\ hist' = hist
                    ELSE /\ sync' = [sync EXCEPT
                                        !.mapping = JsObject(PruneEntry(sync.mapping.e, tsFileName)),
                                        !.log = Append(@, Event("dir-not-found", tsFileName, webResourceDir)),
                                        !.i = @ + 1]
                         /\ UNCHANGED <<assets, hist>>
           ELSE /\ sync' = SkipUnmapped(sync, tsFileName)
                /\ UNCHANGED <<assets, hist>>
    /\ UNCHANGED <<configFile, dist, tsDir, create, harness>>

\* mutant of FinalTable: the table in memory is merged into the file on disk
FinalTableMergedWithDisk(s) ==
    LET d == loadMapping(configFile).e
        m == s.mapping.e
    IN  JsObject([i \in 1..Len(d) |->
                    IF HasKey(m, d[i].k) THEN [k |-> d[i].k, v |-> GetValue(m, d[i].k)] ELSE d[i]]
                 \o SelectSeq(m, LAMBDA en : ~HasKey(d, en.k)))

\* the object handed to saveMapping: the one loaded at the start of the run,
\* as the loop left it; the file is not read again
FinalTable(s) == s.mapping

\* after the loop: saveMapping(mapping) and the closing report
SyncSave ==
    /\ sync.pc = "loop"
    /\ sync.i > Len(sync.compiledFiles)
    /\ LET s == [sync EXCEPT !.pc = "done",
                             !.log = Append(@, Event("complete", <<>>, <<>>))]
       IN  /\ configFile' = saveMapping(FinalTable(sync))
           /\ sync' = s
           /\ hist' = Append(hist, RunRecord("done", s, saveMapping(FinalTable(sync)), assets))
    /\ UNCHANGED <<dist, assets, tsDir, create, harness>>

---------------------------------------------------------------------------
(* Mapping creation flow                                                   *)

TYPESCRIPT_DIR == <<"t", "y", "p", "e", "s", "c", "r", "i", "p", "t">>

LETTERS ==
    {"a", "b", "c", "d", "e", "f", "g", "h", "i", "j", "k", "l", "m",
     "n", "o", "p", "q", "r", "s", "t", "u", "v", "w", "x", "y", "z",
     "A", "B", "C", "D", "E", "F", "G", "H", "I", "J", "K", "L", "M",
     "N", "O", "P", "Q", "R", "S", "T", "U", "V", "W", "X", "Y", "Z"}

DIGITS == {"0", "1", "2", "3", "4", "5", "6", "7", "8", "9"}

\* the character class [a-zA-Z0-9_-]
NameChar(c) == c \in LETTERS \cup DIGITS \cup {"_", "-"}

\* /^[a-zA-Z0-9_-]+$/.test(s)
MatchesNamePattern(s) == Len(s) >= 1 /\ \A i \in 1..Len(s) : NameChar(s[i])

\* mutant of ValidatedText: the pattern is tested on the answer as typed
ValidatedTextUntrimmed(input) == input

\* what the validate callback tests the pattern on
ValidatedText(input) == Trim(input)

\* the validate callback of the file-name prompt: ok = it returned true,
\* otherwise msg is the message it returned
validate(input) ==
    IF input = <<>> \/ Len(Trim(input)) = 0
    THEN [ok |-> FALSE, msg |-> "File name is required"]
    ELSE IF ~MatchesNamePattern(ValidatedText(input))
    THEN [ok |-> FALSE,
          msg |-> "File name can only contain letters, numbers, underscores, and hyphens"]
    ELSE [ok |-> TRUE, msg |-> ""]

\* `${tsFileName.trim()}.ts`
SourceFileName(tsFileName) == Trim(tsFileName) \o TS_EXT

\* getDefaultTemplate(): the fixed boilerplate, one opaque chunk
DEFAULT_TEMPLATE == <<"// TypeScript Web Resource Template ... (window as any).WebResource = WebResource;\n">>

\* a byte that is no valid UTF-8 on its own (0xE9, e-acute in Latin-1)
INVALID_BYTE == "<E9>"

\* U+FFFD, which writeFileSync encodes as EF BF BD
REPLACEMENT_CHAR == "<EF BF BD>"

\* fs.readFileSync(jsFilePath, 'utf8'): the bytes decoded as UTF-8, every
\* invalid sequence becoming U+FFFD; valid text stands for its own encoding
readFileUtf8(bytes) ==
    [i \in 1..Len(bytes) |-> IF bytes[i] = INVALID_BYTE THEN REPLACEMENT_CHAR ELSE bytes[i]]

\* mutant of convertJsToTs: the trailer is left out
convertJsToTsWithoutTrailer(baseName, jsContent) ==
    <<"// TypeScript version of ">> \o baseName
    \o <<NL, "// Auto-generated from existing JavaScript web resource", NL, NL>>
    \o jsContent

\* convertJsToTs(jsFilePath) for an existing file: header, contents, trailer
convertJsToTs(baseName, jsContent) ==
    <<"// TypeScript version of ">> \o baseName
    \o <<NL, "// Auto-generated from existing JavaScript web resource", NL, NL>>
    \o jsContent
    \o <<NL, NL, "// TypeScript exports for better development experience", NL,
         "// Uncomment and modify as needed:", NL, "// export { };", NL>>

TsIndex(dir, name) == CHOOSE i \in 1..Len(dir.entries) : dir.entries[i].name = name

\* fs.existsSync(tsFilePath), tsFilePath = path.join(TYPESCRIPT_DIR, name)
tsExists(dir, tsFilePath) ==
    LET name == PathRelative(TYPESCRIPT_DIR, tsFilePath)
    IN  dir.exists /\ \E i \in 1..Len(dir.entries) : dir.entries[i].name = name

\* mutant of tsWriteThrows: the write of the source file never raises
tsWriteNeverThrows(dir, tsFilePath) == FALSE

\* fs.writeFileSync(tsFilePath, ...) throws: no ./typescript directory, or a
\* file that cannot be written
tsWriteThrows(dir, tsFilePath) ==
    LET name == PathRelative(TYPESCRIPT_DIR, tsFilePath)
    IN  \/ ~dir.exists
        \/ tsExists(dir, tsFilePath) /\ ~dir.entries[TsIndex(dir, name)].writable

\* fs.writeFileSync(tsFilePath, tsContent)
tsWrite(dir, tsFilePath, content) ==
    LET name == PathRelative(TYPESCRIPT_DIR, tsFilePath)
    IN  IF tsExists(dir, tsFilePath)
        THEN [dir EXCEPT !.entries[TsIndex(dir, name)].bytes = content]
        ELSE [dir EXCEPT !.entries = Append(@, FileEntry(name, content, TRUE))]

\* mutant of RecordMapping: the new entry replaces the loaded table
RecordMappingAlone(entries, key, webResourceDir) == <<[k |-> key, v |-> webResourceDir]>>

\* mapping[relativeTsPath] = webResourceDir
RecordMapping(entries, key, webResourceDir) == PutValue(entries, key, webResourceDir)

\* the answers typed at the file-name prompt
NameInputs ==
    { <<"a">>, <<SP, "a", SP>>, <<"b">>, <<"a", SP, "b">>, <<>> }

IdleCreateFlow ==
    [pc |-> "idle", mapping |-> EmptyObject, loaded |-> EmptyObject, dirs |-> {},
     webResourceDir |-> <<>>, tsFileName |-> <<>>, convertExisting |-> FALSE,
     lastReject |-> "", tsContent |-> <<>>, before |-> AbsentFile,
     tsBefore |-> [exists |-> FALSE, entries |-> <<>>], overwrite |-> "unasked",
     savedAt |-> 0]

\* createNewWebResource up to the prompts: scan, load, early return
CreateStart ==
    /\ create.pc = "idle"
    /\ LET dirs    == getWebResourceDirs(assets)
           mapping == loadMapping(configFile)
       IN  create' = [create EXCEPT !.pc = IF dirs = {} THEN "no-dirs" ELSE "prompt",
                                    !.mapping = mapping, !.loaded = mapping,
                                    !.dirs = dirs, !.before = configFile,
                                    !.tsBefore = tsDir]
    /\ UNCHANGED <<configFile, dist, assets, tsDir, sync, hist, harness>>

\* the file-name prompt rejects an answer and asks again
CreateReject ==
    /\ create.pc = "prompt"
    /\ \E input \in NameInputs :
          /\ ~validate(input).ok
          /\ create' = [create EXCEPT !.lastReject = validate(input).msg]
    /\ UNCHANGED <<configFile, dist, assets, tsDir, sync, hist, harness>>

\* the three prompts are answered; then the existence check of the source file
CreateAnswer ==
    /\ create.pc = "prompt"
    /\ \E dir \in create.dirs, input \in NameInputs, convert \in BOOLEAN :
          /\ validate(input).ok
          /\ LET tsFilePath == PathJoin(TYPESCRIPT_DIR, SourceFileName(input))
             IN  create' = [create EXCEPT
                              !.pc = IF tsExists(tsDir, tsFilePath) THEN "confirm" ELSE "write",
                              !.webResourceDir = dir,
                              !.tsFileName = input,
                              !.convertExisting = convert]
    /\ UNCHANGED <<configFile, dist, assets, tsDir, sync, hist, harness>>

\* mutant of AfterOverwritePrompt: the answer is not looked at
AfterOverwritePromptIgnoresAnswer(overwrite) == "write"

\* if (!overwrite.overwrite) return; otherwise on to the write
AfterOverwritePrompt(overwrite) == IF overwrite THEN "write" ELSE "cancelled"

\* the overwrite prompt
CreateConfirm ==
    /\ create.pc = "confirm"
    /\ \E overwrite \in BOOLEAN :
          create' = [create EXCEPT !.pc = AfterOverwritePrompt(overwrite),
                                   !.overwrite = IF overwrite THEN "yes" ELSE "no"]
    /\ UNCHANGED <<configFile, dist, assets, tsDir, sync, hist, harness>>

\* content, writeFileSync of the source file, mapping update, saveMapping
CreateWrite ==
    /\ create.pc = "write"
    /\ LET webResourcePath == PathJoin(WEBRESOURCES_DIR, create.webResourceDir)
           tsFilePath      == PathJoin(TYPESCRIPT_DIR, SourceFileName(create.tsFileName))
           jsFiles         == JsFilesIn(assets, webResourcePath)
           tsContent       == IF create.convertExisting /\ Len(jsFiles) > 0
                              THEN convertJsToTs(jsFiles[1],
                                                 readFileUtf8(FolderAt(assets, webResourcePath).entries[
                                                     EntryIndex(assets, webResourcePath, jsFiles[1])].bytes))
                              ELSE DEFAULT_TEMPLATE
           crashed         == [create EXCEPT !.pc = "crashed"]
       IN  IF create.convertExisting /\ readdirThrows(assets, webResourcePath)
           THEN \* readdirSync raises: the rejection reaches .catch(console.error)
                /\ create' = crashed
                /\ UNCHANGED <<tsDir, configFile>>
           ELSE IF tsWriteThrows(tsDir, tsFilePath)
           THEN /\ create' = crashed
                /\ UNCHANGED <<tsDir, configFile>>
           ELSE IF create.mapping.t = "null"
           THEN \* mapping[relativeTsPath] = ... on null: TypeError after the write
                /\ create' = [crashed EXCEPT !.tsContent = tsContent]
                /\ tsDir' = tsWrite(tsDir, tsFilePath, tsContent)
                /\ UNCHANGED configFile
           ELSE LET mapping == JsObject(RecordMapping(create.mapping.e,
                                                      SourceFileName(create.tsFileName),
                                                      create.webResourceDir))
                IN  /\ create' = [create EXCEPT !.pc = "done", !.mapping = mapping,
                                                !.tsContent = tsContent,
                                                !.savedAt = Len(hist)]
                    /\ tsDir' = tsWrite(tsDir, tsFilePath, tsContent)
                    /\ configFile' = saveMapping(mapping)
    /\ UNCHANGED <<dist, assets, sync, hist, harness>>

---------------------------------------------------------------------------
(* The file-system states the scripts are started in                       *)

ARTIFACT_A == <<"a">> \o JS_EXT

ARTIFACT_B == <<"b">> \o JS_EXT

NOTES_FILE == <<"n", ".", "m", "d">>

KEY_A == <<"a">> \o TS_EXT

KEY_B == <<"b">> \o TS_EXT

\* a source file nothing was compiled from
KEY_Z == <<"z">> \o TS_EXT

FOLDER_F == <<"f">>

FOLDER_G == <<"g">>

BYTES_A == <<"1">>

BYTES_B == <<"2">>

OLD_BYTES == <<"o">>

DESCRIPTOR_BYTES == <<"N", "a", "m", "e", ":", SP, "c", "o", "_", "x">>

BACKING_M == <<"m">> \o JS_EXT

BACKING_N == <<"n">> \o JS_EXT

DescriptorEntry == FileEntry(DESCRIPTOR_NAME, DESCRIPTOR_BYTES, TRUE)

FolderStates ==
    { AbsentFolder,
      PlainFileFolder,
      DirFolder(<<>>),
      DirFolder(<<DescriptorEntry>>),
      DirFolder(<<FileEntry(BACKING_M, OLD_BYTES, TRUE), DescriptorEntry>>),
      DirFolder(<<DescriptorEntry, FileEntry(BACKING_N, OLD_BYTES, TRUE),
                  FileEntry(BACKING_M, OLD_BYTES, TRUE)>>),
      DirFolder(<<FileEntry(BACKING_M, OLD_BYTES, FALSE)>>),
      DirFolder(<<FileEntry(BACKING_N, OLD_BYTES, FALSE), FileEntry(BACKING_M, OLD_BYTES, TRUE)>>) }

AssetStates ==
    {[exists |-> FALSE, folders |-> [n \in {FOLDER_F, FOLDER_G} |-> AbsentFolder]]}
    \cup {[exists |-> TRUE, folders |-> fo] : fo \in [{FOLDER_F, FOLDER_G} -> FolderStates]}

DistFile(rel, bytes) == [rel |-> rel, bytes |-> bytes]

DistStates ==
    {[exists |-> FALSE, files |-> <<>>]}
    \cup {[exists |-> TRUE, files |-> fs] :
            fs \in { <<>>,
                     <<DistFile(NOTES_FILE, OLD_BYTES)>>,
                     <<DistFile(ARTIFACT_A, BYTES_A)>>,
                     <<DistFile(ARTIFACT_B, BYTES_B)>>,
                     <<DistFile(ARTIFACT_A, BYTES_A), DistFile(NOTES_FILE, OLD_BYTES),
                       DistFile(ARTIFACT_B, BYTES_B)>>,
                     <<DistFile(ARTIFACT_B, BYTES_B), DistFile(ARTIFACT_A, BYTES_A)>> }}

\* the tables a mapping file may hold: each key unmapped or mapped to a folder
OptionalEntry(key) == {<<>>} \cup {<<[k |-> key, v |-> f]>> : f \in {FOLDER_F, FOLDER_G}}

InitTables ==
    {a \o b \o z : a \in OptionalEntry(KEY_A), b \in OptionalEntry(KEY_B), z \in OptionalEntry(KEY_Z)}

\* a write cut short: not JSON
TRUNCATED_TEXT == <<"{", NL, SP, SP, QUOTE, "a">>

NULL_TEXT == <<"n", "u", "l", "l">>

ConfigStates ==
    {AbsentFile, FileWith(TRUNCATED_TEXT), FileWith(NULL_TEXT)}
    \cup {saveMapping(JsObject(t)) : t \in InitTables}

IdleHarness == [pc |-> "idle"]

EmptyTsDir == [exists |-> TRUE, entries |-> <<>>]

InitSync ==
    /\ configFile \in ConfigStates
    /\ dist \in DistStates
    /\ assets \in AssetStates
    /\ tsDir = EmptyTsDir
    /\ sync = IdleSync
    /\ create = IdleCreateFlow
    /\ hist = <<>>
    /\ harness = IdleHarness

NextSync == SyncStart \/ SyncStep \/ SyncSave

\* the reconciler alone, run up to MaxRuns times on one file system
SpecSync == InitSync /\ [][NextSync]_vars

TsDirStates ==
    { [exists |-> FALSE, entries |-> <<>>],
      [exists |-> TRUE, entries |-> <<>>],
      [exists |-> TRUE, entries |-> <<FileEntry(KEY_A, OLD_BYTES, TRUE)>>],
      [exists |-> TRUE, entries |-> <<FileEntry(KEY_B, OLD_BYTES, FALSE)>>] }

LATIN1_BYTES == <<"1", INVALID_BYTE>>

\* the asset roots the creation flow is started on
CreateAssetStates ==
    {[exists |-> TRUE,
      folders |-> [n \in {FOLDER_F, FOLDER_G} |->
                     IF n = FOLDER_F
                     THEN DirFolder(<<FileEntry(BACKING_M, OLD_BYTES, TRUE), DescriptorEntry>>)
                     ELSE DirFolder(<<FileEntry(BACKING_N, LATIN1_BYTES, TRUE)>>)]]}
    \cup
    {a \in AssetStates :
        a.exists =>
          /\ a.folders[FOLDER_F] \in FolderStates \ {DirFolder(<<>>), DirFolder(<<FileEntry(BACKING_M, OLD_BYTES, FALSE)>>),
                                                      DirFolder(<<FileEntry(BACKING_N, OLD_BYTES, FALSE),
                                                                  FileEntry(BACKING_M, OLD_BYTES, TRUE)>>)}
          /\ a.folders[FOLDER_G] \in {AbsentFolder, DirFolder(<<FileEntry(BACKING_M, OLD_BYTES, TRUE), DescriptorEntry>>)}}

InitCreate ==
    /\ configFile \in ConfigStates
    /\ dist = [exists |-> FALSE, files |-> <<>>]
    /\ assets \in CreateAssetStates
    /\ tsDir \in TsDirStates
    /\ sync = IdleSync
    /\ create = IdleCreateFlow
    /\ hist = <<>>
    /\ harness = IdleHarness

NextCreate == CreateStart \/ CreateReject \/ CreateAnswer \/ CreateConfirm \/ CreateWrite

\* the creation flow alone, run once
SpecCreate == InitCreate /\ [][NextCreate]_vars

\* the mapping files the two scripts are started on together
RaceTables ==
    { <<>>,
      <<[k |-> KEY_A, v |-> FOLDER_G]>>,
      <<[k |-> KEY_A, v |-> FOLDER_G], [k |-> KEY_Z, v |-> FOLDER_F]>>,
      <<[k |-> KEY_A, v |-> FOLDER_F], [k |-> KEY_B, v |-> FOLDER_G]>> }

RaceConfigStates ==
    {AbsentFile, FileWith(TRUNCATED_TEXT)} \cup {saveMapping(JsObject(t)) : t \in RaceTables}

\* folder f with a backing file, folder g not on disk
RaceAssets ==
    [exists |-> TRUE,
     folders |-> [n \in {FOLDER_F, FOLDER_G} |->
                    IF n = FOLDER_F
                    THEN DirFolder(<<FileEntry(BACKING_M, OLD_BYTES, TRUE), DescriptorEntry>>)
                    ELSE AbsentFolder]]

InitRace ==
    /\ configFile \in RaceConfigStates
    /\ dist \in {[exists |-> TRUE, files |-> <<DistFile(ARTIFACT_A, BYTES_A)>>],
                 [exists |-> TRUE, files |-> <<>>]}
    /\ assets = RaceAssets
    /\ tsDir \in {EmptyTsDir, [exists |-> TRUE, entries |-> <<FileEntry(KEY_A, OLD_BYTES, TRUE)>>]}
    /\ sync = IdleSync
    /\ create = IdleCreateFlow
    /\ hist = <<>>
    /\ harness = IdleHarness

NextRace == NextCreate \/ NextSync

\* one creation flow and up to MaxRuns reconciler runs, as two processes on
\* one working directory: every file-system call of one may fall between two
\* calls of the other
SpecRace == InitRace /\ [][NextRace]_vars

---------------------------------------------------------------------------
(* Single calls of the mapping store, the validate callback and the        *)
(* scanner, on inputs drawn from bounded sets                              *)

MaxEntries == 2

StoreKeys ==
    { <<>>, <<"a">>, <<"a">> \o TS_EXT, <<QUOTE>>, <<"a", BACKSLASH>>, <<BACKSLASH, QUOTE, "n">> }

StoreValues == { <<>>, <<"f">>, <<"f", NL, QUOTE>>, <<":", SP, ",">> }

StoreEntries == {[k |-> key, v |-> val] : key \in StoreKeys, val \in StoreValues}

\* flat tables of at most MaxEntries entries, in every property order
StoreTables ==
    {t \in UNION {[1..n -> StoreEntries] : n \in 0..MaxEntries} :
        \A i, j \in 1..Len(t) : i # j => t[i].k # t[j].k}

\* what the mapping file may hold when loadMapping is called
StoreFiles ==
    { AbsentFile, FileWith(<<>>), FileWith(TRUNCATED_TEXT), FileWith(NULL_TEXT),
      FileWith(<<"{", "}">>), FileWith(<<"{", "}", "x">>),
      FileWith(<<"{", QUOTE, "a", QUOTE, ":", QUOTE, "f", QUOTE, ",", "}">>),
      FileWith(<<SP, "{", QUOTE, "a", QUOTE, SP, ":", QUOTE, "f", QUOTE, "}", NL>>) }

InitStore ==
    /\ configFile \in StoreFiles
    /\ dist = [exists |-> FALSE, files |-> <<>>]
    /\ assets = [exists |-> FALSE, folders |-> [n \in {FOLDER_F, FOLDER_G} |-> AbsentFolder]]
    /\ tsDir = EmptyTsDir
    /\ sync = IdleSync
    /\ create = IdleCreateFlow
    /\ hist = <<>>
    /\ \E t \in StoreTables :
          /\ configFile \in {AbsentFile, FileWith(TRUNCATED_TEXT)} \/ Len(t) <= 1
          /\ harness = [pc |-> "start", arg |-> JsObject(t), ret |-> EmptyObject, reported |-> FALSE]

\* a caller saves its table
StoreSave ==
    /\ harness.pc = "start"
    /\ configFile' = saveMapping(harness.arg)
    /\ harness' = [harness EXCEPT !.pc = "saved"]
    /\ UNCHANGED <<dist, assets, tsDir, sync, create, hist>>

\* a caller loads the table
StoreLoad ==
    /\ harness.pc \in {"start", "saved"}
    /\ harness' = [harness EXCEPT !.pc = IF harness.pc = "start" THEN "loaded" ELSE "reloaded",
                                  !.ret = loadMapping(configFile),
                                  !.reported = loadMappingReportsError(configFile)]
    /\ UNCHANGED <<configFile, dist, assets, tsDir, sync, create, hist>>

NextStore == StoreSave \/ StoreLoad

SpecStore == InitStore /\ [][NextStore]_vars

MaxLen == 3

InputChars == {"a", "Z", "7", "_", "-", ".", "!", SP}

ValidateInputs == UNION {[1..n -> InputChars] : n \in 0..MaxLen}

InitValidate ==
    /\ configFile = AbsentFile
    /\ dist = [exists |-> FALSE, files |-> <<>>]
    /\ assets = [exists |-> FALSE, folders |-> [n \in {FOLDER_F, FOLDER_G} |-> AbsentFolder]]
    /\ tsDir = EmptyTsDir
    /\ sync = IdleSync
    /\ create = IdleCreateFlow
    /\ hist = <<>>
    /\ \E input \in ValidateInputs :
          harness = [pc |-> "start", arg |-> input, ret |-> [ok |-> FALSE, msg |-> ""], name |-> <<>>]

\* the prompt hands an answer to validate; an accepted answer names the file
ValidateCall ==
    /\ harness.pc = "start"
    /\ harness' = [harness EXCEPT !.pc = "validated",
                                  !.ret = validate(harness.arg),
                                  !.name = IF validate(harness.arg).ok
                                           THEN SourceFileName(harness.arg) ELSE <<>>]
    /\ UNCHANGED <<configFile, dist, assets, tsDir, sync, create, hist>>

NextValidate == ValidateCall

SpecValidate == InitValidate /\ [][NextValidate]_vars

MaxLines == 3

LINE_NAME == NAME_KEY \o <<SP, "c">>

LINE_DISPLAY_NAME == DISPLAY_NAME_KEY \o <<SP, "E", SP, "F">>

LINE_FILE_NAME == FILE_NAME_KEY \o <<SP, "m">>

LINE_NAME_AGAIN == NAME_KEY \o <<SP, "w">>

LINE_OTHER == <<"T", "y", "p", "e", ":", SP, "q">>

DescriptorLines == {LINE_NAME, LINE_DISPLAY_NAME, LINE_FILE_NAME, LINE_NAME_AGAIN, LINE_OTHER}

RECURSIVE JoinLines(_)
JoinLines(lines) ==
    IF lines = <<>> THEN <<>>
    ELSE Head(lines) \o <<NL>> \o JoinLines(Tail(lines))

Descriptors == {JoinLines(ls) : ls \in UNION {[1..n -> DescriptorLines] : n \in 0..MaxLines}}

InfoFolders ==
    {DirFolder(<<>>)}
    \cup {DirFolder(<<FileEntry(BACKING_M, OLD_BYTES, TRUE), FileEntry(DESCRIPTOR_NAME, d, TRUE)>>) :
            d \in Descriptors}

InitInfo ==
    /\ configFile = AbsentFile
    /\ dist = [exists |-> FALSE, files |-> <<>>]
    /\ \E fo \in InfoFolders :
          assets = [exists |-> TRUE, folders |-> [n \in {FOLDER_F, FOLDER_G} |->
                                                    IF n = FOLDER_F THEN fo ELSE AbsentFolder]]
    /\ tsDir = EmptyTsDir
    /\ sync = IdleSync
    /\ create = IdleCreateFlow
    /\ hist = <<>>
    /\ harness = [pc |-> "start", arg |-> FOLDER_F, ret |-> NullInfo]

\* a caller reads a folder's descriptor
InfoCall ==
    /\ harness.pc = "start"
    /\ harness' = [harness EXCEPT !.pc = "read", !.ret = getWebResourceInfo(assets, harness.arg)]
    /\ UNCHANGED <<configFile, dist, assets, tsDir, sync, create, hist>>

NextInfo == InfoCall

SpecInfo == InitInfo /\ [][NextInfo]_vars

MaxParts == 4

\* what the names below the build-output root are put together from
PathParts == {<<"a">>, <<"o", "n">>, JS_EXT, TS_EXT, SEP}

RECURSIVE Flatten(_)
Flatten(parts) == IF parts = <<>> THEN <<>> ELSE Head(parts) \o Flatten(Tail(parts))

\* the relative paths glob.sync('./dist/**/*.js') can return: segments that
\* are not empty and do not start with a dot, the last one ending in .js
ArtifactPaths ==
    {Flatten(q) \o JS_EXT :
        q \in {p \in UNION {[1..n -> PathParts] : n \in 1..MaxParts} :
                  /\ p[1] = <<"a">>
                  /\ p[Len(p)] # SEP
                  /\ \A i \in 1..(Len(p) - 1) : p[i] = SEP => p[i + 1] = <<"a">>}}

InitKey ==
    /\ configFile = AbsentFile
    /\ dist = [exists |-> FALSE, files |-> <<>>]
    /\ assets = [exists |-> FALSE, folders |-> [n \in {FOLDER_F, FOLDER_G} |-> AbsentFolder]]
    /\ tsDir = EmptyTsDir
    /\ sync = IdleSync
    /\ create = IdleCreateFlow
    /\ hist = <<>>
    /\ \E rel \in ArtifactPaths :
          harness = [pc |-> "start", arg |-> PathJoin(DIST_DIR, rel), ret |-> <<>>]

\* the loop derives the lookup key of one compiled file
KeyCall ==
    /\ harness.pc = "start"
    /\ harness' = [harness EXCEPT !.pc = "derived", !.ret = DerivedKey(harness.arg)]
    /\ UNCHANGED <<configFile, dist, assets, tsDir, sync, create, hist>>

NextKey == KeyCall

\* the key derivation alone, on one artifact path
SpecKey == InitKey /\ [][NextKey]_vars

---------------------------------------------------------------------------
(* Properties of reconciler runs.  A finished run r is a record of hist:   *)
(* r.before / r.assetsBefore are the mapping file and the assets root the  *)
(* run started on, r.config / r.assets what it left.                       *)

Runs == {hist[n] : n \in 1..Len(hist)}

\* the table persisted in a mapping file
PersistedEntries(file) == loadMapping(file).e

PersistedKeys(file) == Keys(PersistedEntries(file))

FolderMissing(fs, folder) == ~existsSync(fs, PathJoin(WEBRESOURCES_DIR, folder))

RunKeys(r) == {DerivedKey(r.compiledFiles[i].path) : i \in 1..Len(r.compiledFiles)}

\* the entries of the loaded table whose target folder is not on disk
StaleKeys(r) ==
    {k \in Keys(r.loaded.e) : FolderMissing(r.assetsBefore, GetValue(r.loaded.e, k))}

CountEvents(log, ev, key) ==
    Cardinality({i \in 1..Len(log) : log[i].ev = ev /\ log[i].key = key})

PrunedIn(r, k) ==
    /\ k \notin PersistedKeys(r.config)
    /\ CountEvents(r.log, "dir-not-found", k) = 1

\* C1 as stated: every entry whose target folder is missing is pruned by one
\* run, with exactly one 'mapped directory not found' warning, whatever the
\* build output holds.
C1_PrunesEveryStaleEntry ==
    \A r \in Runs : \A k \in StaleKeys(r) : PrunedIn(r, k)

\* C1 amended: an entry whose target folder is missing is pruned, with exactly
\* one 'mapped directory not found' warning, by a run that has a compiled
\* artifact deriving its key and that reaches its final save; a stale entry no
\* artifact derives is persisted as it was.
C1_PrunesStaleEntryOfArtifact ==
    \A r \in Runs : \A k \in StaleKeys(r) :
        r.outcome = "done" =>
            IF k \in RunKeys(r) THEN PrunedIn(r, k)
            ELSE /\ k \in PersistedKeys(r.config)
                 /\ CountEvents(r.log, "dir-not-found", k) = 0

\* C1 witness: a finished run pruned a stale entry and kept another stale
\* entry that no artifact derives.
C1_Witness ==
    \E r \in Runs :
        /\ r.outcome = "done"
        /\ \E k \in StaleKeys(r) : k \in RunKeys(r) /\ PrunedIn(r, k)
        /\ \E k \in StaleKeys(r) : k \notin RunKeys(r)

\* the backing file syncFile chooses in a folder: the first .js in directory order
ChosenBacking(fs, folder) == JsFilesIn(fs, PathJoin(WEBRESOURCES_DIR, folder))[1]

BytesOf(fs, folder, name) ==
    LET targetDir == PathJoin(WEBRESOURCES_DIR, folder)
    IN  FolderAt(fs, targetDir).entries[EntryIndex(fs, targetDir, name)].bytes

\* the artifacts of run r that C2 is about: key mapped, folder present with a
\* .js file, copy not failing
Syncable(r) ==
    {i \in 1..Len(r.compiledFiles) :
        LET k == DerivedKey(r.compiledFiles[i].path)
        IN  /\ HasKey(r.loaded.e, k)
            /\ LET targetDir == PathJoin(WEBRESOURCES_DIR, GetValue(r.loaded.e, k))
               IN  /\ FolderAt(r.assetsBefore, targetDir).kind = "dir"
                   /\ Len(JsFilesIn(r.assetsBefore, targetDir)) > 0
                   /\ ~copyFileThrows(r.assetsBefore, targetDir,
                                      JsFilesIn(r.assetsBefore, targetDir)[1])}

FolderOfArtifact(r, i) == GetValue(r.loaded.e, DerivedKey(r.compiledFiles[i].path))

BackingBytesAfter(r, i) ==
    BytesOf(r.assets, FolderOfArtifact(r, i), ChosenBacking(r.assetsBefore, FolderOfArtifact(r, i)))

\* C2 as stated: after a run every syncable artifact's backing file holds that
\* artifact's bytes and the reported count is the number of such artifacts.
C2_EveryArtifactBytesKept ==
    \A r \in Runs : r.outcome = "done" =>
        /\ \A i \in Syncable(r) : BackingBytesAfter(r, i) = r.compiledFiles[i].bytes
        /\ r.count = Cardinality(Syncable(r))

\* C2 amended: after a run that reaches its report, the backing file of every
\* syncable artifact holds the bytes of the last syncable artifact, in
\* discovery order, that is mapped to the same folder, and the reported count
\* is the number of syncable artifacts.
C2_LastArtifactBytesKept ==
    \A r \in Runs : r.outcome = "done" =>
        /\ \A i \in Syncable(r) :
              LET same == {j \in Syncable(r) : FolderOfArtifact(r, j) = FolderOfArtifact(r, i)}
              IN  BackingBytesAfter(r, i) = r.compiledFiles[MaxOf(same)].bytes
        /\ r.count = Cardinality(Syncable(r))

\* C2 witness: a finished run copied two artifacts, one of them onto a folder
\* of its own.
C2_Witness ==
    \E r \in Runs :
        /\ r.outcome = "done"
        /\ r.count = 2
        /\ \E i, j \in Syncable(r) : FolderOfArtifact(r, i) # FolderOfArtifact(r, j)
        /\ \A i \in Syncable(r) : BackingBytesAfter(r, i) = r.compiledFiles[i].bytes

SameFile(f, g) ==
    /\ f.exists = g.exists
    /\ TableOf(PersistedEntries(f)) = TableOf(PersistedEntries(g))

\* C3 as stated: a second run on the same artifacts leaves the same persisted
\* table and reports zero synced files.
C3_SecondRunSyncsNothing ==
    Len(hist) >= 2 =>
        /\ SameFile(hist[2].config, hist[1].config)
        /\ hist[2].outcome = "done" => hist[2].count = 0

\* C3 amended: a second run on the same artifacts and the same file system
\* (every copy failing or succeeding as before) leaves the same persisted
\* table as the first and ends as the first did, re-copying every artifact:
\* it reports the same synced-file count as the first run, not zero.
C3_SecondRunRepeatsFirst ==
    Len(hist) >= 2 =>
        /\ SameFile(hist[2].config, hist[1].config)
        /\ hist[2].outcome = hist[1].outcome
        /\ hist[2].count = hist[1].count
        /\ hist[2].assets = hist[1].assets

\* C3 witness: both runs finished, the first pruned an entry and synced a file.
C3_Witness ==
    /\ Len(hist) >= 2
    /\ hist[1].outcome = "done" /\ hist[2].outcome = "done"
    /\ hist[1].count >= 1
    /\ \E k \in StaleKeys(hist[1]) : PrunedIn(hist[1], k)

\* the per-artifact events of a run's console
ArtifactEvents(log) ==
    SelectSeq(log, LAMBDA e : e.ev \in {"synced", "failed", "no-js-files", "dir-not-found", "no-mapping"})

\* the artifacts of run r whose sync fails: the mapped folder is on disk but
\* cannot be listed, or the copy onto its backing file fails
FailingArtifacts(r) ==
    {i \in 1..Len(r.compiledFiles) :
        LET k == DerivedKey(r.compiledFiles[i].path)
        IN  /\ HasKey(r.loaded.e, k)
            /\ LET targetDir == PathJoin(WEBRESOURCES_DIR, GetValue(r.loaded.e, k))
               IN  /\ existsSync(r.assetsBefore, targetDir)
                   /\ \/ readdirThrows(r.assetsBefore, targetDir)
                      \/ /\ Len(JsFilesIn(r.assetsBefore, targetDir)) > 0
                         /\ copyFileThrows(r.assetsBefore, targetDir,
                                           JsFilesIn(r.assetsBefore, targetDir)[1])}

\* C7 as stated: a run whose loaded mapping is a table and in which the sync
\* of some artifact fails is not aborted: every artifact is processed, the
\* failed artifact's entry is kept and not counted, and the table is
\* persisted at the end.
C7_FailureNeverAbortsRun ==
    \A r \in Runs :
        (r.loaded.t = "object" /\ FailingArtifacts(r) # {}) =>
            /\ r.outcome = "done"
            /\ Len(ArtifactEvents(r.log)) = Len(r.compiledFiles)
            /\ r.config = saveMapping(loadMapping(r.config))
            /\ r.count = Cardinality(Syncable(r))
            /\ \A i \in FailingArtifacts(r) :
                  LET k == DerivedKey(r.compiledFiles[i].path)
                  IN  /\ k \in PersistedKeys(r.config)
                      /\ GetValue(PersistedEntries(r.config), k) = GetValue(r.loaded.e, k)

AtUnmappedArtifact ==
    /\ sync.pc = "loop"
    /\ sync.i <= Len(sync.compiledFiles)
    /\ sync.loaded.t = "object"
    /\ ~HasKey(sync.loaded.e, DerivedKey(sync.compiledFiles[sync.i].path))

\* C12: the step the reconciler takes for a compiled artifact whose derived
\* key is not in the mapping table logs one warning naming that key and does
\* nothing else: no file under the assets root changes, the table in memory
\* and the mapping file are unchanged, the synced count is unchanged, and the
\* loop goes on to the next artifact without raising an error.
C12_UnmappedArtifactSkipped ==
    [][AtUnmappedArtifact =>
          LET key == DerivedKey(sync.compiledFiles[sync.i].path)
          IN  /\ sync'.log = Append(sync.log, Event("no-mapping", key, <<>>))
              /\ assets' = assets
              /\ sync'.mapping = sync.mapping
              /\ configFile' = configFile
              /\ sync'.syncCount = sync.syncCount
              /\ sync'.pc = "loop"
              /\ sync'.i = sync.i + 1
              /\ hist' = hist]_vars

\* C12 witness: a run that skipped an unmapped artifact went on, copied a
\* later artifact and finished.
C12_Witness ==
    \E r \in Runs :
        /\ r.outcome = "done"
        /\ r.loaded.t = "object"
        /\ \E i, j \in 1..Len(r.log) :
              /\ i < j
              /\ r.log[i].ev = "no-mapping"
              /\ ~HasKey(r.loaded.e, r.log[i].key)
              /\ r.log[j].ev = "synced"
        /\ r.count = 1

\* the loop is about to handle an artifact whose key is mapped to a folder
\* that is on disk as a directory
AtMappedArtifactWithFolder ==
    /\ sync.pc = "loop"
    /\ sync.i <= Len(sync.compiledFiles)
    /\ sync.mapping.t = "object"
    /\ IsMapped(sync.mapping.e, DerivedKey(sync.compiledFiles[sync.i].path))
    /\ FolderAt(assets, PathJoin(WEBRESOURCES_DIR,
                    GetValue(sync.mapping.e, DerivedKey(sync.compiledFiles[sync.i].path)))).kind = "dir"

\* the folder the artifact at hand is mapped to
FolderAtHand == GetValue(sync.mapping.e, DerivedKey(sync.compiledFiles[sync.i].path))

\* every file of the assets root but the one named stays as it is
OnlyChanges(folder, name) ==
    /\ assets'.exists = assets.exists
    /\ \A f \in DOMAIN assets.folders :
          /\ assets'.folders[f].kind = assets.folders[f].kind
          /\ Len(assets'.folders[f].entries) = Len(assets.folders[f].entries)
          /\ \A n \in 1..Len(assets.folders[f].entries) :
                (f # folder \/ assets.folders[f].entries[n].name # name) =>
                    assets'.folders[f].entries[n] = assets.folders[f].entries[n]

\* the step for a mapped artifact whose folder holds no .js file: a warning,
\* nothing created or modified, entry kept, not counted
SkipsFolderWithoutJs ==
    LET key       == DerivedKey(sync.compiledFiles[sync.i].path)
        targetDir == PathJoin(WEBRESOURCES_DIR, FolderAtHand)
    IN  Len(JsFilesIn(assets, targetDir)) = 0 =>
            /\ assets' = assets
            /\ sync'.mapping = sync.mapping
            /\ sync'.syncCount = sync.syncCount
            /\ sync'.log = Append(sync.log, Event("no-js-files", key, targetDir))

\* C15 as stated: a mapped artifact whose folder holds no .js file is skipped
\* with a warning; in a folder with several .js files exactly the first in
\* directory order is overwritten and every other file is left unchanged.
C15_FirstOfSeveralOverwritten ==
    [][AtMappedArtifactWithFolder =>
          LET targetDir == PathJoin(WEBRESOURCES_DIR, FolderAtHand)
              js        == JsFilesIn(assets, targetDir)
          IN  /\ SkipsFolderWithoutJs
              /\ Len(js) > 1 =>
                    /\ OnlyChanges(FolderAtHand, js[1])
                    /\ BytesOf(assets', FolderAtHand, js[1]) = sync.compiledFiles[sync.i].bytes]_vars

\* C15 amended: a mapped artifact whose folder holds no .js file is skipped
\* with a warning; in a folder with several .js files every file other than
\* the first .js file in directory order is left unchanged, and that first
\* file is overwritten with the artifact unless the copy fails, in which case
\* no file of the folder is modified and the artifact is not counted.
C15_FirstOfSeveralOverwrittenUnlessCopyFails ==
    [][AtMappedArtifactWithFolder =>
          LET targetDir == PathJoin(WEBRESOURCES_DIR, FolderAtHand)
              js        == JsFilesIn(assets, targetDir)
          IN  /\ SkipsFolderWithoutJs
              /\ Len(js) > 1 =>
                    /\ OnlyChanges(FolderAtHand, js[1])
                    /\ IF copyFileThrows(assets, targetDir, js[1])
                       THEN /\ assets' = assets
                            /\ sync'.syncCount = sync.syncCount
                       ELSE /\ BytesOf(assets', FolderAtHand, js[1]) = sync.compiledFiles[sync.i].bytes
                            /\ sync'.syncCount = sync.syncCount + 1]_vars

\* C15 witness: one finished run skipped an artifact whose folder holds no
\* .js file and copied another onto the first of several .js files, the
\* second .js file keeping its bytes.
C15_Witness ==
    \E r \in Runs :
        /\ r.outcome = "done"
        /\ \E n \in 1..Len(r.log) : r.log[n].ev = "no-js-files"
        /\ \E n \in 1..Len(r.log) :
              /\ r.log[n].ev = "synced"
              /\ LET folder == PathRelative(WEBRESOURCES_DIR, r.log[n].dir)
                     js     == JsFilesIn(r.assetsBefore, r.log[n].dir)
                 IN  /\ Len(js) > 1
                     /\ BytesOf(r.assets, folder, js[1]) # BytesOf(r.assetsBefore, folder, js[1])
                     /\ BytesOf(r.assets, folder, js[2]) = BytesOf(r.assetsBefore, folder, js[2])

---------------------------------------------------------------------------
(* Properties of creation-flow runs                                        *)

\* C10 as stated: a completed run with accepted name n and folder f persists
\* n + '.ts' -> f and every other loaded entry unchanged.
C10_PersistsNameDotTs ==
    create.pc = "done" =>
        LET table == PersistedEntries(configFile)
            key   == create.tsFileName \o TS_EXT
        IN  /\ HasKey(table, key)
            /\ GetValue(table, key) = create.webResourceDir
            /\ \A k \in Keys(create.loaded.e) \ {key} :
                  HasKey(table, k) /\ GetValue(table, k) = GetValue(create.loaded.e, k)

\* C10 amended: a completed run with accepted answer n and folder f persists
\* a table in which key trim(n) + '.ts' maps to f, every other entry of the
\* table loaded at the start is present with its value unchanged, and no key
\* other than those is present.
C10_PersistsTrimmedNameDotTs ==
    create.pc = "done" =>
        LET table == PersistedEntries(configFile)
            key   == Trim(create.tsFileName) \o TS_EXT
        IN  /\ HasKey(table, key)
            /\ GetValue(table, key) = create.webResourceDir
            /\ \A k \in Keys(create.loaded.e) \ {key} :
                  HasKey(table, k) /\ GetValue(table, k) = GetValue(create.loaded.e, k)
            /\ Keys(table) = Keys(create.loaded.e) \cup {key}

\* C10 witness: a completed run overwrote the earlier folder of its key and
\* the loaded table had two other entries.
C10_Witness ==
    /\ create.pc = "done"
    /\ HasKey(create.loaded.e, KEY_A)
    /\ GetValue(create.loaded.e, KEY_A) # create.webResourceDir
    /\ create.tsFileName = <<"a">>
    /\ Cardinality(Keys(create.loaded.e)) = 3

\* C11: when the source file of the chosen name exists and the user declines
\* the overwrite prompt, the flow stops there: the ./typescript directory and
\* every file in it are as they were when the flow started, and the mapping
\* file has the contents (or the absence) it had when the flow started.
C11_DeclineChangesNothing ==
    create.overwrite = "no" =>
        /\ create.pc = "cancelled"
        /\ tsDir = create.tsBefore
        /\ configFile = create.before

\* C11 witness: the flow was declined on an existing source file while a
\* mapping file with an entry was on disk.
C11_Witness ==
    /\ create.overwrite = "no"
    /\ create.pc = "cancelled"
    /\ tsExists(tsDir, PathJoin(TYPESCRIPT_DIR, SourceFileName(create.tsFileName)))
    /\ create.before.exists
    /\ create.loaded.t = "object" /\ create.loaded.e # <<>>

\* the source file of the accepted answer, as the flow names it
SourceFileAtHand == Trim(create.tsFileName) \o TS_EXT

\* the source file cannot be written: no ./typescript directory, or the file
\* is there and is read-only
SourceUnwritable(dir, name) ==
    \/ ~dir.exists
    \/ \E i \in 1..Len(dir.entries) : dir.entries[i].name = name /\ ~dir.entries[i].writable

\* the flow has got past its prompts and has ended
CreateEnded == create.pc \in {"done", "crashed"}

\* C17: the source file is written before the mapping is updated.  When the
\* write of the source file fails the flow ends with the error, the mapping
\* file is as it was at the start and the ./typescript directory is
\* unchanged; and whenever the flow has changed the mapping file, it holds an
\* entry for the source file's name and that source file was written in the
\* same run with the content the flow built.
C17_SourceWrittenBeforeMapping ==
    /\ (CreateEnded /\ SourceUnwritable(create.tsBefore, SourceFileAtHand)) =>
          /\ create.pc = "crashed"
          /\ configFile = create.before
          /\ tsDir = create.tsBefore
    /\ ((create.pc # "idle" /\ configFile # create.before) \/ create.pc = "done") =>
          /\ create.pc = "done"
          /\ HasKey(PersistedEntries(configFile), SourceFileAtHand)
          /\ ~SourceUnwritable(create.tsBefore, SourceFileAtHand)
          /\ \E i \in 1..Len(tsDir.entries) :
                /\ tsDir.entries[i].name = SourceFileAtHand
                /\ tsDir.entries[i].bytes = create.tsContent

\* C17 witness: the user agreed to overwrite a read-only source file, the
\* write failed, and the mapping file with its entries is as before.
C17_Witness ==
    /\ create.pc = "crashed"
    /\ create.overwrite = "yes"
    /\ SourceUnwritable(create.tsBefore, SourceFileAtHand)
    /\ create.loaded.t = "object" /\ create.loaded.e # <<>>
    /\ ~HasKey(create.loaded.e, SourceFileAtHand)
    /\ configFile = create.before

\* the flow has written its source file
SourceWritten == create.tsContent # <<>>

\* the .js files of the chosen asset folder, in directory order
JsFilesOfChosenFolder == JsFilesIn(assets, PathJoin(WEBRESOURCES_DIR, create.webResourceDir))

\* the bytes on disk of the first .js file of the chosen asset folder
FirstJsBytes == BytesOf(assets, create.webResourceDir, JsFilesOfChosenFolder[1])

\* the header of a seeded source file that names .js file name
HeaderNaming(name) ==
    <<"// TypeScript version of ">> \o name
    \o <<NL, "// Auto-generated from existing JavaScript web resource", NL, NL>>

EXPORT_STUB_TRAILER ==
    <<NL, NL, "// TypeScript exports for better development experience", NL,
      "// Uncomment and modify as needed:", NL, "// export { };", NL>>

BOILERPLATE == <<"// TypeScript Web Resource Template ... (window as any).WebResource = WebResource;\n">>

\* the names a first .js file has in the asset folders considered
BackingNames == {BACKING_M, BACKING_N}

\* the source file in the ./typescript directory holds the content built
WrittenContentOnDisk ==
    \E i \in 1..Len(tsDir.entries) :
        /\ tsDir.entries[i].name = SourceFileAtHand
        /\ tsDir.entries[i].bytes = create.tsContent

---------------------------------------------------------------------------
(* Properties of a creation flow and reconciler runs on one mapping file   *)

\* the changes a reconciler run made to its table, replayed from its console
RECURSIVE SyncChange(_, _)
SyncChange(entries, log) ==
    IF log = <<>> THEN entries
    ELSE LET e == Head(log)
         IN  SyncChange(IF e.ev = "dir-not-found" THEN DeleteKey(entries, e.key)
                        ELSE IF e.ev = "synced" THEN PutValue(entries, e.key, PathBasename(e.dir))
                        ELSE entries,
                        Tail(log))

CreateSaved == create.pc = "done"

\* the reconciler runs that saved, and did so after the creation flow saved
\* (all that saved, if the flow has not)
SyncSavesAfterCreate ==
    {n \in 1..Len(hist) :
        /\ hist[n].outcome = "done"
        /\ CreateSaved => n > create.savedAt}

\* the creation flow's snapshot plus its change
CreateTable ==
    PutValue(create.loaded.e, Trim(create.tsFileName) \o TS_EXT, create.webResourceDir)

\* the snapshot plus the change of whichever invocation saved last
LastSavedTable ==
    IF SyncSavesAfterCreate # {}
    THEN LET r == hist[MaxOf(SyncSavesAfterCreate)]
         IN  SyncChange(loadMapping(r.before).e, r.log)
    ELSE CreateTable

\* C14: once any invocation has saved, the mapping file holds exactly the
\* table of the invocation that saved last, which is the snapshot that
\* invocation loaded plus its own change; nothing of what the other
\* invocation saved in between is merged in.
C14_LastWriterWins ==
    (CreateSaved \/ SyncSavesAfterCreate # {}) =>
        /\ configFile = saveMapping(JsObject(LastSavedTable))
        /\ CreateSaved => create.loaded = loadMapping(create.before)

\* C14 witness: the creation flow loaded, the first reconciler run pruned a
\* stale entry, the flow saved and so brought that entry back; the second
\* reconciler run, which had loaded before the flow saved, saved last and so
\* lost the flow's new entry.
C14_Witness ==
    /\ CreateSaved
    /\ Len(hist) = 2
    /\ create.savedAt = 1
    /\ hist[1].outcome = "done" /\ hist[2].outcome = "done"
    /\ HasKey(create.loaded.e, KEY_A)
    /\ ~HasKey(PersistedEntries(hist[1].config), KEY_A)
    /\ HasKey(create.mapping.e, KEY_A)
    /\ hist[2].before = hist[1].config
    /\ HasKey(create.mapping.e, KEY_B) /\ ~HasKey(create.loaded.e, KEY_B)
    /\ ~HasKey(PersistedEntries(configFile), KEY_B)

\* the mapping file is there but is not JSON
Unparsable(file) == file.exists /\ ~JsonParse(file.text).ok

\* C16: an unparsable mapping file is loaded as the empty table and replaced
\* by the next save.  A reconciler run that loaded it and has at least one
\* compiled artifact finishes and leaves a file holding the empty table; a
\* creation-flow run that loaded it and completes saves a table holding
\* exactly its one new entry, which is what the file holds until another save;
\* in both cases the earlier contents are gone.
C16_UnparsableFileReplaced ==
    /\ \A r \in Runs :
          (Unparsable(r.before) /\ Len(r.compiledFiles) >= 1) =>
              /\ r.outcome = "done"
              /\ r.config.exists
              /\ JsonParse(r.config.text).ok
              /\ PersistedEntries(r.config) = <<>>
              /\ r.config # r.before
    /\ (CreateSaved /\ Unparsable(create.before)) =>
          /\ create.mapping.e = <<[k |-> Trim(create.tsFileName) \o TS_EXT, v |-> create.webResourceDir]>>
          /\ SyncSavesAfterCreate = {} =>
                /\ configFile = saveMapping(create.mapping)
                /\ PersistedEntries(configFile) = create.mapping.e
                /\ configFile # create.before

\* C16 witness: a reconciler run and a creation flow both loaded the
\* unparsable file; the run saved the empty table, then the flow saved its
\* one entry.
C16_Witness ==
    /\ CreateSaved
    /\ Unparsable(create.before)
    /\ create.savedAt = 1
    /\ Unparsable(hist[1].before)
    /\ hist[1].outcome = "done"
    /\ Len(hist[1].compiledFiles) >= 1
    /\ Len(PersistedEntries(configFile)) = 1

---------------------------------------------------------------------------
(* Further properties of reconciler runs                                   *)

\* the build-output root is absent or holds no file whose name ends in .js
NoCompiledArtifact ==
    \/ ~dist.exists
    \/ \A i \in 1..Len(dist.files) : ~EndsWith(dist.files[i].rel, JS_EXT)

\* C19: with the build-output root absent or holding no .js artifact, a
\* reconciler run returns before its loop: the mapping file is as it was
\* (absent, unparsable or with stale entries alike) and the assets root and
\* every file below it are as they were.
C19_NothingCompiledNothingWritten ==
    NoCompiledArtifact =>
        \A r \in Runs :
            /\ r.outcome = "returned"
            /\ r.config = r.before
            /\ configFile = r.before
            /\ r.assets = r.assetsBefore
            /\ assets = r.assetsBefore
            /\ r.count = 0

\* C19 witness: two runs returned early, the build-output root holding only
\* a file that is no .js artifact, on an unparsable mapping file.
C19_Witness ==
    /\ NoCompiledArtifact
    /\ dist.exists /\ Len(dist.files) > 0
    /\ Len(hist) = 2
    /\ Unparsable(hist[2].before)
    /\ hist[2].outcome = "returned"

\* C20: a reconciler run adds no key and leaves alone every entry it has no
\* artifact for: the keys persisted at the end of the run are among the keys
\* loaded at its start, and every loaded entry whose key no compiled artifact
\* of the run derives is persisted with its value unchanged, also when its
\* target folder is not on disk.
C20_NoKeyAddedOthersKept ==
    \A r \in Runs :
        LET persisted == PersistedEntries(r.config)
        IN  /\ Keys(persisted) \subseteq Keys(r.loaded.e)
            /\ \A k \in Keys(r.loaded.e) \ RunKeys(r) :
                  /\ HasKey(persisted, k)
                  /\ GetValue(persisted, k) = GetValue(r.loaded.e, k)

\* C20 witness: a finished run pruned the stale entry of an artifact and kept
\* the entry of a source file nothing was compiled from although its folder
\* is not on disk either.
C20_Witness ==
    \E r \in Runs :
        /\ r.outcome = "done"
        /\ KEY_Z \in StaleKeys(r) \ RunKeys(r)
        /\ HasKey(PersistedEntries(r.config), KEY_Z)
        /\ \E k \in StaleKeys(r) \cap RunKeys(r) : ~HasKey(PersistedEntries(r.config), k)

\* the folders the values of a loaded table name
FoldersNamedBy(loaded) == {loaded.e[n].v : n \in 1..Len(loaded.e)}

\* between two states of the assets root nothing was created, removed or
\* renamed, and every file whose bytes differ is a .js file directly inside a
\* folder that a value of the loaded table names
OnlyMappedJsOverwritten(before, after, loaded) ==
    /\ after.exists = before.exists
    /\ DOMAIN after.folders = DOMAIN before.folders
    /\ \A f \in DOMAIN before.folders :
          /\ after.folders[f].kind = before.folders[f].kind
          /\ Len(after.folders[f].entries) = Len(before.folders[f].entries)
          /\ \A n \in 1..Len(before.folders[f].entries) :
                LET old == before.folders[f].entries[n]
                    new == after.folders[f].entries[n]
                IN  /\ new.name = old.name
                    /\ new.writable = old.writable
                    /\ new.bytes # old.bytes =>
                          /\ EndsWith(old.name, JS_EXT)
                          /\ f \in FoldersNamedBy(loaded)

\* the pairs of artifacts of run r, in discovery order, whose keys the loaded
\* table maps to one folder that is on disk and holds a .js file
SameFolderPairs(r) ==
    {p \in (1..Len(r.compiledFiles)) \X (1..Len(r.compiledFiles)) :
        /\ p[1] < p[2]
        /\ \A i \in {p[1], p[2]} : HasKey(r.loaded.e, DerivedKey(r.compiledFiles[i].path))
        /\ FolderOfArtifact(r, p[1]) = FolderOfArtifact(r, p[2])
        /\ LET targetDir == PathJoin(WEBRESOURCES_DIR, FolderOfArtifact(r, p[1]))
           IN  /\ FolderAt(r.assetsBefore, targetDir).kind = "dir"
               /\ Len(JsFilesIn(r.assetsBefore, targetDir)) > 0}

\* both artifacts of the pair were copied and counted, and the backing file
\* holds the bytes of the last artifact mapped to that folder
BothCopiedLaterWins(r, p) ==
    LET same == {j \in 1..Len(r.compiledFiles) :
                    /\ HasKey(r.loaded.e, DerivedKey(r.compiledFiles[j].path))
                    /\ FolderOfArtifact(r, j) = FolderOfArtifact(r, p[1])}
    IN  /\ \A i \in {p[1], p[2]} :
              CountEvents(r.log, "synced", DerivedKey(r.compiledFiles[i].path)) = 1
        /\ r.count >= 2
        /\ BackingBytesAfter(r, p[1]) = r.compiledFiles[MaxOf(same)].bytes

\* what the reconciler has done to the assets root, in every finished run and
\* in the run under way
AssetsFrameKept ==
    /\ \A r \in Runs : OnlyMappedJsOverwritten(r.assetsBefore, r.assets, r.loaded)
    /\ sync.pc = "loop" => OnlyMappedJsOverwritten(sync.assetsBefore, assets, sync.loaded)

\* C21 as stated: the reconciler only overwrites existing .js files directly
\* inside folders named by values of the loaded table (nothing created, no
\* descriptor or other file modified, no unmapped folder touched); and when
\* two mapped artifacts point to the same folder, both are copied onto the
\* same backing file, both are counted, and the file ends with the bytes of
\* the later one.
C21_OnlyMappedJsAndLaterWins ==
    /\ AssetsFrameKept
    /\ \A r \in Runs : r.outcome = "done" =>
          \A p \in SameFolderPairs(r) : BothCopiedLaterWins(r, p)

\* C21 amended: the frame as stated; and when two mapped artifacts point to
\* the same folder and the copy onto its backing file does not fail, a run
\* that reaches its report has copied both onto that file, counted both, and
\* left the file with the bytes of the later one.
C21_OnlyMappedJsAndLaterWinsUnlessCopyFails ==
    /\ AssetsFrameKept
    /\ \A r \in Runs : r.outcome = "done" =>
          \A p \in SameFolderPairs(r) :
              LET targetDir == PathJoin(WEBRESOURCES_DIR, FolderOfArtifact(r, p[1]))
              IN  IF copyFileThrows(r.assetsBefore, targetDir, JsFilesIn(r.assetsBefore, targetDir)[1])
                  THEN /\ \A i \in {p[1], p[2]} :
                             CountEvents(r.log, "synced", DerivedKey(r.compiledFiles[i].path)) = 0
                       /\ BackingBytesAfter(r, p[1])
                             = BytesOf(r.assetsBefore, FolderOfArtifact(r, p[1]),
                                       ChosenBacking(r.assetsBefore, FolderOfArtifact(r, p[1])))
                  ELSE BothCopiedLaterWins(r, p)

\* C21 witness: a finished run copied two artifacts onto the first .js file
\* of one folder that also holds a descriptor and a second .js file, while
\* the other folder, with a .js file of its own, is named by no entry.
C21_Witness ==
    \E r \in Runs :
        /\ r.outcome = "done"
        /\ r.count = 2
        /\ SameFolderPairs(r) # {}
        /\ \E p \in SameFolderPairs(r) :
              /\ Len(FolderAt(r.assetsBefore, PathJoin(WEBRESOURCES_DIR, FolderOfArtifact(r, p[1]))).entries) = 3
              /\ BackingBytesAfter(r, p[1]) = r.compiledFiles[p[2]].bytes
        /\ \E g \in DOMAIN r.assetsBefore.folders :
              /\ g \notin FoldersNamedBy(r.loaded)
              /\ Len(JsFilesIn(r.assetsBefore, PathJoin(WEBRESOURCES_DIR, g))) > 0

---------------------------------------------------------------------------
(* Properties of single calls                                              *)

\* C4: a table saved by saveMapping and loaded by loadMapping comes back as
\* an object with exactly the same keys and the same value for each key.
C4_SaveLoadRoundTrip ==
    harness.pc = "reloaded" =>
        /\ harness.ret.t = "object"
        /\ TableOf(harness.ret.e) = TableOf(harness.arg.e)

\* C4 witness: a table of two entries, with a quote and a backslash in a key
\* and a line break in a value, was saved and loaded.
C4_Witness ==
    /\ harness.pc = "reloaded"
    /\ Len(harness.arg.e) = 2
    /\ \E i \in 1..2 : harness.arg.e[i].k = <<BACKSLASH, QUOTE, "n">>
    /\ \E i \in 1..2 : harness.arg.e[i].v = <<"f", NL, QUOTE>>

\* C6 as stated: whatever the mapping file holds, loadMapping returns a table:
\* the empty table when the file is absent, the empty table with the error
\* reported when the file cannot be parsed.
C6_LoadAlwaysReturnsTable ==
    harness.pc = "loaded" =>
        /\ harness.ret.t = "object"
        /\ ~configFile.exists => harness.ret = EmptyObject /\ ~harness.reported
        /\ (configFile.exists /\ ~JsonParse(configFile.text).ok) =>
              harness.ret = EmptyObject /\ harness.reported

\* the input is a name of [a-zA-Z0-9_-]+ between optional runs of whitespace
NameBetweenSpaces(input) ==
    \E i, j \in 1..Len(input) :
        /\ i <= j
        /\ \A n \in 1..Len(input) : IF n < i \/ n > j THEN IsSpace(input[n]) ELSE NameChar(input[n])

RECURSIVE SplitLines(_)
SplitLines(s) ==
    IF s = <<>> THEN <<>>
    ELSE LET e == EndOfLine(s, 1)
         IN  <<SubSeq(s, 1, e)>> \o SplitLines(SubSeq(s, e + 2, Len(s)))

\* the value of the first line that starts with key, null when there is none
OwnLineField(content, key) ==
    LET lines == SplitLines(content)
        own   == {i \in 1..Len(lines) : StartsWithAt(lines[i], key, 1)}
    IN  IF own = {} THEN NullField
        ELSE StringField(Trim(SubSeq(lines[MinOf(own)], Len(key) + 1, Len(lines[MinOf(own)]))))

DescriptorOf(fs, folder) ==
    LET es == fs.folders[folder].entries
    IN  {es[i].bytes : i \in {n \in 1..Len(es) : es[n].name = DESCRIPTOR_NAME}}

\* C8 as stated: null without a descriptor; otherwise each of name,
\* displayName and fileName is the value of the first line that starts with
\* its own key, and null when the descriptor has no such line.
C8_FieldsFromOwnKeyLines ==
    harness.pc = "read" =>
        /\ DescriptorOf(assets, harness.arg) = {} => harness.ret.null
        /\ \A content \in DescriptorOf(assets, harness.arg) :
              /\ ~harness.ret.null
              /\ harness.ret.name = OwnLineField(content, NAME_KEY)
              /\ harness.ret.displayName = OwnLineField(content, DISPLAY_NAME_KEY)
              /\ harness.ret.fileName = OwnLineField(content, FILE_NAME_KEY)

\* a path with its trailing extension ext replaced by to
WithExtension(p, ext, to) ==
    IF EndsWith(p, ext) THEN SubSeq(p, 1, Len(p) - Len(ext)) \o to ELSE p

\* C13: the key derived for a compiled artifact is its path relative to the
\* build-output root with only the trailing .js replaced by .ts and every
\* other character kept, so the artifact compiled from source file s derives
\* key s.
C13_KeyReplacesTrailingExtension ==
    harness.pc = "derived" =>
        harness.ret = WithExtension(PathRelative(DIST_DIR, harness.arg), JS_EXT, TS_EXT)

===========================================================================
